---- MODULE Spec2Model ----
(***************************************************************************)
(* Traffic persistence and query engine of cursor-docker:                  *)
(*   - mitmproxy_addon.py : TrafficCapture, the writer (ingestion path)    *)
(*   - mcp_proxy_server.py: the reader (store reads, query tools, clear)   *)
(* The two run as separate processes sharing one directory: one JSON file  *)
(* per captured transaction plus index.json.                               *)
(*                                                                         *)
(* Text is a sequence of tokens (a character, or an atomic chunk such as a *)
(* method name); bytes are a sequence of byte tokens.                      *)
(***************************************************************************)
EXTENDS Integers, Sequences, FiniteSets, TLC

\* ------------------------------------------------------------------ bounds
MaxIngest == 2
IdSpace == 127
MaxLen == 2

\* ------------------------------------------------------- program constants
DefaultLimit == 100
CodeInternalError == -32603
CodeMethodNotFound == -32601
TopHosts == 10

\* --------------------------------------------------------------- text model
\* str.lower() / str.upper(), token by token
LowerTok(c) ==
    CASE c = "A" -> "a"
      [] c = "B" -> "b"
      [] c = "F" -> "f"
      [] c = "GET" -> "get"
      [] c = "POST" -> "post"
      [] c = "IMAGE/" -> "image/"
      [] c = "Content-Type" -> "content-type"
      [] c = "CONTENT-TYPE" -> "content-type"
      [] c = "TEXT/" -> "text/"
      [] OTHER -> c

UpperTok(c) ==
    CASE c = "a" -> "A"
      [] c = "b" -> "B"
      [] c = "f" -> "F"
      [] c = "get" -> "GET"
      [] c = "post" -> "POST"
      [] c = "image/" -> "IMAGE/"
      [] c = "content-type" -> "CONTENT-TYPE"
      [] c = "Content-Type" -> "CONTENT-TYPE"
      [] c = "text/" -> "TEXT/"
      [] OTHER -> c

Lower(s) == [i \in 1..Len(s) |-> LowerTok(s[i])]

Upper(s) == [i \in 1..Len(s) |-> UpperTok(s[i])]

\* Python's `needle in hay` on strings
Contains(hay, needle) ==
    \E i \in 0..(Len(hay) - Len(needle)) :
        SubSeq(hay, i + 1, i + Len(needle)) = needle

\* --------------------------------------------------------------- the codec
\* bytes.decode('utf-8'): ASCII bytes decode to themselves, the pair C3 A9
\* decodes to one character, any other high byte is invalid.
HighBytes == {"xC3", "xA9", "xFF"}

RECURSIVE Utf8Valid(_)
Utf8Valid(b) ==
    IF b = <<>> THEN TRUE
    ELSE IF Head(b) \notin HighBytes THEN Utf8Valid(Tail(b))
    ELSE IF Head(b) = "xC3" /\ Len(b) >= 2 /\ b[2] = "xA9"
         THEN Utf8Valid(Tail(Tail(b)))
    ELSE FALSE

RECURSIVE Utf8Decode(_)
Utf8Decode(b) ==
    IF b = <<>> THEN <<>>
    ELSE IF Head(b) \notin HighBytes THEN <<Head(b)>> \o Utf8Decode(Tail(b))
    ELSE <<"e'">> \o Utf8Decode(Tail(Tail(b)))

\* bytes.decode('latin-1'): one character per byte, never fails
Latin1Char(c) ==
    CASE c = "xC3" -> "A~"
      [] c = "xA9" -> "(c)"
      [] c = "xFF" -> "y:"
      [] OTHER -> c

Latin1Decode(b) == [i \in 1..Len(b) |-> Latin1Char(b[i])]

\* A body that is absent (flow.request.content is None): a sentinel that is
\* no byte string
NoContent == <<"None">>

IsNone(content) == content = NoContent

BinaryTypes == {<<"image/">>, <<"audio/">>, <<"video/">>,
                <<"application/octet-stream">>, <<"application/pdf">>,
                <<"application/zip">>, <<"application/gzip">>}

IsBinaryType(content_type) ==
    \E bt \in BinaryTypes : Contains(Lower(content_type), bt)

\* a variant of the decoder that goes to the single-byte decoding at once
SafeDecodeLatin1(content, content_type) ==
    IF IsNone(content) THEN <<>>
    ELSE IF IsBinaryType(content_type)
         THEN <<"[Binary content: ", ToString(Len(content)), " bytes, type: ">>
              \o content_type \o <<"]">>
    ELSE Latin1Decode(content)

\* TrafficCapture._safe_decode
SafeDecode(content, content_type) ==
    IF IsNone(content) THEN <<>>
    ELSE IF IsBinaryType(content_type)
         THEN <<"[Binary content: ", ToString(Len(content)), " bytes, type: ">>
              \o content_type \o <<"]">>
    ELSE IF Utf8Valid(content) THEN Utf8Decode(content)
    ELSE Latin1Decode(content)

\* len(content) if content else 0
ContentLength(content) ==
    IF IsNone(content) THEN 0 ELSE Len(content)

\* mitmproxy Headers.get(name, ""): case-insensitive lookup
HeaderGet(headers, name) ==
    IF \E k \in DOMAIN headers : Lower(k) = name
    THEN headers[CHOOSE k \in DOMAIN headers : Lower(k) = name]
    ELSE <<>>

\* ------------------------------------------------------------- identifiers
TokCode(c) ==
    CASE c = "GET" -> 1
      [] c = "POST" -> 2
      [] c = "get" -> 3
      [] c = "a" -> 4
      [] c = "A" -> 5
      [] c = "b" -> 6
      [] c = "f" -> 7
      [] c = "F" -> 8
      [] OTHER -> 9

\* hashlib.sha256(s).hexdigest()[:16]: a fixed function of the string into a
\* finite space of identifiers
RECURSIVE Digest(_, _)
Digest(s, h) ==
    IF s = <<>> THEN h
    ELSE Digest(Tail(s), (h * 17 + TokCode(Head(s))) % IdSpace)

\* TrafficCapture._generate_id: the digest of method, url and the clock
\* reading t
GenerateId(method, url, t) == (Digest(method \o url, 0) * 17 + t) % IdSpace

\* ------------------------------------------------------------------- flows
\* What the proxy hands to TrafficCapture.response: a completed exchange.
NoHeaders == [k \in {} |-> <<>>]

FlowA ==
    [method |-> <<"GET">>, url |-> <<"a">>, host |-> <<"a">>, port |-> 80,
     path |-> <<"/">>, scheme |-> <<"http">>,
     reqHeaders |-> NoHeaders, reqContent |-> NoContent,
     hasResponse |-> TRUE, status_code |-> 200, reason |-> <<"OK">>,
     respHeaders |-> (<<"Content-Type">> :> <<"text/">>),
     respContent |-> <<"F", "a">>]

FlowB ==
    [method |-> <<"POST">>, url |-> <<"A", "b">>, host |-> <<"A", "b">>,
     port |-> 443, path |-> <<"/">>, scheme |-> <<"https">>,
     reqHeaders |-> (<<"content-type">> :> <<"text/">>),
     reqContent |-> <<"f">>,
     hasResponse |-> TRUE, status_code |-> 404, reason |-> <<"Not Found">>,
     respHeaders |-> (<<"Content-Type">> :> <<"IMAGE/", "png">>),
     respContent |-> <<"xFF">>]

\* An exchange whose response never arrived (flow.response is None)
FlowNoResponse == [FlowA EXCEPT !.hasResponse = FALSE]

Flows == {FlowA, FlowB, FlowNoResponse}

\* ------------------------------------------------------ records and entries
\* request_data of TrafficCapture.response
RequestData(flow, id, timestamp) ==
    [id |-> id,
     timestamp |-> timestamp,
     request |->
        [method |-> flow.method,
         url |-> flow.url,
         host |-> flow.host,
         port |-> flow.port,
         path |-> flow.path,
         scheme |-> flow.scheme,
         headers |-> flow.reqHeaders,
         content |-> SafeDecode(flow.reqContent,
                                HeaderGet(flow.reqHeaders, <<"content-type">>)),
         content_length |-> ContentLength(flow.reqContent)],
     response |->
        [status_code |-> flow.status_code,
         reason |-> flow.reason,
         headers |-> flow.respHeaders,
         content |-> SafeDecode(flow.respContent,
                                HeaderGet(flow.respHeaders, <<"content-type">>)),
         content_length |-> ContentLength(flow.respContent)]]

\* index_entry of TrafficCapture.response
IndexEntry(flow, data) ==
    [id |-> data.id,
     timestamp |-> data.timestamp,
     method |-> flow.method,
     url |-> flow.url,
     host |-> flow.host,
     status_code |-> flow.status_code,
     content_type |-> HeaderGet(flow.respHeaders, <<"content-type">>),
     request_size |-> data.request.content_length,
     response_size |-> data.response.content_length]

\* ------------------------------------------------------------ the directory
\* A file is absent from the directory, or holds one of:
Empty == [empty |-> TRUE]        \* opened for writing, nothing flushed yet
Garbage == [garbage |-> TRUE]    \* overlapping writes of two open handles
Missing == [missing |-> TRUE]    \* index.json does not exist
\* bytes that are no text in the encoding open(path, 'r') decodes with; the
\* program writes none (json.dump escapes to ASCII)
Undecodable == [undecodable |-> TRUE]

Unparseable(c) == c = Empty \/ c = Garbage

\* Python's None
None == [none |-> TRUE]

Put(dir, id, c) ==
    [i \in (DOMAIN dir) \cup {id} |-> IF i = id THEN c ELSE dir[i]]

Remove(dir, id) == [i \in (DOMAIN dir) \ {id} |-> dir[i]]

NoFiles == [i \in {} |-> Empty]

\* The outcomes of flushing content c through a handle opened with 'w' (offset
\* 0) onto a file that now holds `cur`: onto the empty file it is c; onto
\* content flushed through another handle since, it is c when c is at least as
\* long and the other content's tail after c otherwise.
\* What clear_traffic dumps: {"requests": []} without indentation, shorter
\* than anything a writer dumps
ClearedIndex == [requests |-> <<>>]

FlushOutcomes(cur, c) ==
    IF cur = Empty \/ cur = ClearedIndex THEN {c}
    ELSE IF c = ClearedIndex THEN {Garbage}
    ELSE {c, Garbage}

VARIABLES
    now,        \* the clock read by time.time() / datetime.now()
    files,      \* <id>.json files of TRAFFIC_DIR: id -> content
    indexFile,  \* index.json: Missing, Empty, Garbage or [requests |-> <<..>>]
    memIndex,   \* writer -> self.index["requests"]
    wpc,        \* writer -> position inside TrafficCapture.response
    wcur,       \* writer -> locals of the running response()
    ingested,   \* number of response() calls begun
    completed,  \* index entries in the order their ingestions completed
    request,    \* the tools/call the server read last
    rpc,        \* the reader's position inside a tool handler
    rloc,       \* locals of the running tool handler
    response,   \* the last response of handle_tool_call
    stdin,      \* the lines on the server's standard input
    lineno,     \* how many of them main() has read
    stdout      \* the responses send_response has written, in order

vars == <<now, files, indexFile, memIndex, wpc, wcur, ingested, completed,
          request, rpc, rloc, response, stdin, lineno, stdout>>

writerVars == <<memIndex, wpc, wcur, ingested, completed>>
readerVars == <<request, rpc, rloc, response>>
storeVars == <<files, indexFile>>
mainVars == <<stdin, lineno, stdout>>

\* ------------------------------------------------------------- store reads
\* An exception that leaves a function
Raised(e) == [raised |-> e]

IsRaised(x) == "raised" \in DOMAIN x

\* json.load(f): f.read() decodes the bytes, then the text is parsed
JsonLoad(c) ==
    IF c = Undecodable THEN Raised("UnicodeDecodeError")
    ELSE IF Unparseable(c) THEN Raised("JSONDecodeError")
    ELSE c

\* except (json.JSONDecodeError, IOError): UnicodeDecodeError is a ValueError
\* and neither of the two
Caught(x) == x.raised = "JSONDecodeError"

\* TrafficCapture._load_index
LoadIndex(f) ==
    IF f = Missing THEN ClearedIndex
    ELSE LET index == JsonLoad(f)
         IN IF IsRaised(index) /\ Caught(index) THEN ClearedIndex ELSE index

\* read_index() of the server: except (json.JSONDecodeError, IOError)
ReadIndex(f) ==
    IF f = Missing THEN ClearedIndex
    ELSE LET index == JsonLoad(f)
         IN IF IsRaised(index) /\ Caught(index) THEN ClearedIndex ELSE index

\* a variant of read_request that lets the JSONDecodeError escape
ReadRequestRaising(dir, request_id) ==
    IF request_id \notin DOMAIN dir THEN None ELSE JsonLoad(dir[request_id])

\* read_request(request_id) of the server: except (json.JSONDecodeError,
\* IOError)
ReadRequest(dir, request_id) ==
    IF request_id \notin DOMAIN dir THEN None
    ELSE LET data == JsonLoad(dir[request_id])
         IN IF IsRaised(data) /\ Caught(data) THEN None ELSE data

\* ---------------------------------------------------------------- writers
\* Each writer is one TrafficCapture object (one proxy process).
AllWriters == {"w1", "w2"}

Idle == [idle |-> TRUE]

\* time.time() and datetime.now() move on between two calls, or do not. The
\* clock is read only when response() begins: only the readings of the
\* MaxIngest ingestions matter, and a tick during an ingestion is a tick after.
Tick ==
    /\ now < MaxIngest - 1
    /\ \A w \in AllWriters : wpc[w] = "idle"
    /\ now' = now + 1
    /\ UNCHANGED <<mainVars, storeVars, writerVars, readerVars>>

\* TrafficCapture.__init__: the proxy process (re)starts and loads the index;
\* an exception _load_index lets through leaves no TrafficCapture
Load(w) ==
    /\ wpc[w] = "idle"
    /\ ~IsRaised(LoadIndex(indexFile))
    /\ memIndex' = [memIndex EXCEPT ![w] = LoadIndex(indexFile).requests]
    /\ UNCHANGED <<now, mainVars, storeVars, wpc, wcur, ingested, completed, readerVars>>

\* response(): flow.response is None, return at once
ResponseNone(w, flow) ==
    /\ wpc[w] = "idle"
    /\ ~flow.hasResponse
    /\ UNCHANGED vars

\* response(): the id, the timestamp and request_data are built, and
\* open(request_file, 'w') creates or truncates <id>.json. `before` remembers
\* index.json as it was when the ingestion began.
ResponseBegin(w, flow) ==
    /\ wpc[w] = "idle"
    /\ flow.hasResponse
    /\ ingested < MaxIngest
    /\ LET id == GenerateId(flow.method, flow.url, now)
           data == RequestData(flow, id, now)
       IN /\ files' = Put(files, id, Empty)
          /\ wcur' = [wcur EXCEPT ![w] =
                        [id |-> id, data |-> data,
                         entry |-> IndexEntry(flow, data), linked |-> TRUE,
                         before |-> indexFile]]
    /\ wpc' = [wpc EXCEPT ![w] = "record_open"]
    /\ ingested' = ingested + 1
    /\ UNCHANGED <<now, mainVars, indexFile, memIndex, completed, readerVars>>

\* json.dump(request_data, f) and the close of the with block; a handle whose
\* file was unlinked meanwhile writes to a file no directory entry names
WriteRecord(w) ==
    /\ wpc[w] = "record_open"
    /\ IF wcur[w].linked
       THEN \E c \in FlushOutcomes(files[wcur[w].id], wcur[w].data) :
                files' = Put(files, wcur[w].id, c)
       ELSE files' = files
    /\ wpc' = [wpc EXCEPT ![w] = "record_written"]
    /\ UNCHANGED <<now, mainVars, indexFile, memIndex, wcur, ingested, completed,
                   readerVars>>

\* a variant of the append that puts the new entry first
AppendEntryFirst(index, entry) == <<entry>> \o index

\* self.index["requests"].append(index_entry)
AppendEntry(index, entry) == Append(index, entry)

\* the append to self.index, then _save_index: open(self.index_file, 'w')
OpenIndex(w) ==
    /\ wpc[w] = "record_written"
    /\ memIndex' = [memIndex EXCEPT ![w] = AppendEntry(memIndex[w], wcur[w].entry)]
    /\ indexFile' = Empty
    /\ wpc' = [wpc EXCEPT ![w] = "index_open"]
    /\ UNCHANGED <<now, mainVars, files, wcur, ingested, completed, readerVars>>

\* a variant of the dump that merges every completed entry, as a writer
\* holding a lock over a fresh read of the file would
SavedIndexMerged(w) == [requests |-> Append(completed, wcur[w].entry)]

\* what _save_index dumps: the writer's in-memory index
SavedIndex(w) == [requests |-> memIndex[w]]

\* json.dump(self.index, f), the close of the with block, and ctx.log.info
WriteIndex(w) ==
    /\ wpc[w] = "index_open"
    /\ \E c \in FlushOutcomes(indexFile, SavedIndex(w)) : indexFile' = c
    /\ wpc' = [wpc EXCEPT ![w] = "idle"]
    /\ completed' = Append(completed, wcur[w].entry)
    /\ wcur' = [wcur EXCEPT ![w] = Idle]
    /\ UNCHANGED <<now, mainVars, files, memIndex, ingested, readerVars>>

Writer(w) ==
    \/ Load(w)
    \/ \E flow \in Flows : ResponseNone(w, flow)
    \/ \E flow \in Flows : ResponseBegin(w, flow)
    \/ WriteRecord(w)
    \/ OpenIndex(w)
    \/ WriteIndex(w)

\* ------------------------------------------------------------ query tools
\* arguments: {}
NoParams == [k \in {} |-> 0]

\* params.get(key, default)
Get(params, key, default) ==
    IF key \in DOMAIN params THEN params[key] ELSE default

\* a variant of the slice that keeps the head, filtered[:limit]
FirstN(s, n) ==
    IF n >= Len(s) THEN s ELSE SubSeq(s, 1, n)

\* filtered[-limit:]
LastN(s, n) ==
    IF n >= Len(s) THEN s ELSE SubSeq(s, Len(s) - n + 1, Len(s))

\* `if status_filter and req.get("status_code") != status_filter`: an absent
\* (None) or zero status_filter is falsy
StatusFilterDrops(req, params) ==
    /\ "status_filter" \in DOMAIN params
    /\ params.status_filter # 0
    /\ req.status_code # params.status_filter

\* the loop body of tool_list_requests: TRUE when req is appended to filtered
ListKeeps(req, params) ==
    LET host_filter == Lower(Get(params, "host_filter", <<>>))
        method_filter == Upper(Get(params, "method_filter", <<>>))
        url_filter == Lower(Get(params, "url_filter", <<>>))
    IN /\ ~(host_filter # <<>> /\ ~Contains(Lower(req.host), host_filter))
       /\ ~(method_filter # <<>> /\ Upper(req.method) # method_filter)
       /\ ~StatusFilterDrops(req, params)
       /\ ~(url_filter # <<>> /\ ~Contains(Lower(req.url), url_filter))

\* tool_list_requests, from the index read_index() returned
ToolListRequests(index, params) ==
    IF IsRaised(index) THEN index
    ELSE LET limit == Get(params, "limit", DefaultLimit)
             kept == SelectSeq(index.requests, LAMBDA req : ListKeeps(req, params))
             filtered == IF limit > 0 THEN LastN(kept, limit) ELSE kept
         IN IF filtered = <<>>
            THEN [text |-> "No requests captured yet."]
            ELSE [text |-> "Found captured requests", count |-> Len(filtered),
                  requests |-> filtered]

\* a variant of tool_read_request that raises for an id it cannot read
ToolReadRequestStrict(dir, params) ==
    IF "request_id" \notin DOMAIN params
    THEN [text |-> "Error: request_id is required"]
    ELSE LET data == ReadRequest(dir, params.request_id)
         IN IF IsRaised(data) THEN data
            ELSE IF data = None THEN Raised("KeyError")
            ELSE [text |-> "REQUEST", data |-> data]

\* tool_read_request
ToolReadRequest(dir, params) ==
    IF "request_id" \notin DOMAIN params
    THEN [text |-> "Error: request_id is required"]
    ELSE LET data == ReadRequest(dir, params.request_id)
         IN IF IsRaised(data) THEN data
            ELSE IF data = None
            THEN [text |-> "Error: Request not found", id |-> params.request_id]
            ELSE [text |-> "REQUEST", data |-> data]

\* for key, value in headers.items(): query in key.lower() or in value.lower()
HeadersHit(headers, query) ==
    \E k \in DOMAIN headers :
        Contains(Lower(k), query) \/ Contains(Lower(headers[k]), query)

\* a variant of found_in that compares the record's text as it is stored
FoundInAsStored(data, query, search_headers) ==
    (IF Contains(data.request.content, query)
        THEN <<"request body">> ELSE <<>>)
    \o (IF Contains(data.response.content, query)
        THEN <<"response body">> ELSE <<>>)
    \o (IF Contains(data.request.url, query) THEN <<"URL">> ELSE <<>>)
    \o (IF search_headers /\ HeadersHit(data.request.headers, query)
        THEN <<"request headers">> ELSE <<>>)
    \o (IF search_headers /\ HeadersHit(data.response.headers, query)
        THEN <<"response headers">> ELSE <<>>)

\* found_in of tool_search_requests for one record that was read
FoundIn(data, query, search_headers) ==
    (IF Contains(Lower(data.request.content), query)
        THEN <<"request body">> ELSE <<>>)
    \o (IF Contains(Lower(data.response.content), query)
        THEN <<"response body">> ELSE <<>>)
    \o (IF Contains(Lower(data.request.url), query) THEN <<"URL">> ELSE <<>>)
    \o (IF search_headers /\ HeadersHit(data.request.headers, query)
        THEN <<"request headers">> ELSE <<>>)
    \o (IF search_headers /\ HeadersHit(data.response.headers, query)
        THEN <<"response headers">> ELSE <<>>)

\* one turn of the loop of tool_search_requests: matches after req_summary,
\* or the exception that left the loop
SearchOne(dir, req_summary, query, search_headers, matches) ==
    LET data == ReadRequest(dir, req_summary.id)
    IN IF IsRaised(data) THEN data
       ELSE IF data = None THEN [matches |-> matches]
       ELSE LET found_in == FoundIn(data, query, search_headers)
            IN IF found_in = <<>> THEN [matches |-> matches]
               ELSE [matches |->
                       Append(matches,
                              [id |-> req_summary.id, method |-> req_summary.method,
                               url |-> req_summary.url, found_in |-> found_in])]

\* the text tool_search_requests returns after its loop
SearchText(query, matches) ==
    IF matches = <<>>
    THEN [text |-> "No requests found matching", query |-> query]
    ELSE [text |-> "Found requests matching", query |-> query,
          count |-> Len(matches), matches |-> matches]

\* one HAR entry of tool_export_har
HarEntry(data) ==
    [startedDateTime |-> data.timestamp,
     request |->
        [method |-> data.request.method,
         url |-> data.request.url,
         httpVersion |-> "HTTP/1.1",
         headers |-> data.request.headers,
         bodySize |-> data.request.content_length,
         postData |->
            IF data.request.content # <<>>
            THEN [mimeType |-> Get(data.request.headers, <<"content-type">>, <<>>),
                  text |-> data.request.content]
            ELSE None],
     response |->
        [status |-> data.response.status_code,
         statusText |-> data.response.reason,
         httpVersion |-> "HTTP/1.1",
         headers |-> data.response.headers,
         content |->
            [size |-> data.response.content_length,
             mimeType |-> Get(data.response.headers, <<"content-type">>, <<>>),
             text |-> data.response.content],
         bodySize |-> data.response.content_length]]

\* a variant of the loop turn that puts the new entry first
ExportOneFirst(dir, req_id, entries) ==
    LET data == ReadRequest(dir, req_id)
    IN IF IsRaised(data) THEN data
       ELSE IF data = None THEN [entries |-> entries]
       ELSE [entries |-> <<HarEntry(data)>> \o entries]

\* a variant of the loop turn that exports a record once only
ExportOneOnce(dir, req_id, entries) ==
    LET data == ReadRequest(dir, req_id)
    IN IF IsRaised(data) THEN data
       ELSE IF data = None THEN [entries |-> entries]
       ELSE IF \E i \in DOMAIN entries : entries[i] = HarEntry(data)
       THEN [entries |-> entries]
       ELSE [entries |-> Append(entries, HarEntry(data))]

\* one turn of the loop of tool_export_har: entries after req_id, or the
\* exception that left the loop
ExportOne(dir, req_id, entries) ==
    LET data == ReadRequest(dir, req_id)
    IN IF IsRaised(data) THEN data
       ELSE IF data = None THEN [entries |-> entries]
       ELSE [entries |-> Append(entries, HarEntry(data))]

\* json.dumps(har, indent=2)
HarText(entries) ==
    [text |-> "HAR", version |-> "1.2", creator |-> "mitmproxy-mcp",
     entries |-> entries]

\* ------------------------------------------------- tool_get_request_stats
\* the decimal digits of n >= 0, as str(n) writes them
RECURSIVE DigitsOf(_)
DigitsOf(n) ==
    IF n < 10 THEN <<n>> ELSE Append(DigitsOf(n \div 10), n % 10)

\* a < b for two strings of digits, as Python compares strings
RECURSIVE DigitsLess(_, _)
DigitsLess(a, b) ==
    IF b = <<>> THEN FALSE
    ELSE IF a = <<>> THEN TRUE
    ELSE IF Head(a) # Head(b) THEN Head(a) < Head(b)
    ELSE DigitsLess(Tail(a), Tail(b))

\* by_x after the loop, keys being the key of each entry in turn: one item
\* per key with its count and the place of the key's first entry (a dict
\* keeps its keys in insertion order)
Tally(keys) ==
    {[key |-> keys[i],
      count |-> Cardinality({j \in DOMAIN keys : keys[j] = keys[i]}),
      first |-> CHOOSE j \in DOMAIN keys :
                  /\ keys[j] = keys[i]
                  /\ \A k \in 1..(j - 1) : keys[k] # keys[i]]
       : i \in DOMAIN keys}

\* a variant of the sort key that puts the lowest count first
ByCountAsc(y, x) ==
    y.count < x.count \/ (y.count = x.count /\ y.first < x.first)

\* key=lambda x: -x[1]; the sort is stable, ties stay in insertion order
ByCountDesc(y, x) ==
    y.count > x.count \/ (y.count = x.count /\ y.first < x.first)

\* sorted(by_status.items()): by the label f"{status // 100}xx"
ByLabel(y, x) == DigitsLess(DigitsOf(y.key), DigitsOf(x.key))

\* sorted(S, key=lambda x: -x[1]): the items of S, highest count first
SortedByCount(S) ==
    [r \in 1..Cardinality(S) |->
        CHOOSE x \in S : Cardinality({y \in S : ByCountDesc(y, x)}) = r - 1]

\* sorted(S): the items of S by label
SortedByLabel(S) ==
    [r \in 1..Cardinality(S) |->
        CHOOSE x \in S : Cardinality({y \in S : ByLabel(y, x)}) = r - 1]

\* the lines "  {key}: {count}"
CountLines(items) == [i \in DOMAIN items |-> <<items[i].key, items[i].count>>]

\* total += req.get(key, 0) over the entries
RECURSIVE SumOver(_)
SumOver(items) ==
    IF items = {} THEN 0
    ELSE LET x == CHOOSE x \in items : TRUE
         IN x.key * x.count + SumOver(items \ {x})

\* [:10]
Top(s, n) == IF Len(s) <= n THEN s ELSE SubSeq(s, 1, n)

\* tool_get_request_stats, from the index read_index() returned
ToolGetRequestStats(index) ==
    IF IsRaised(index) THEN index
    ELSE IF index.requests = <<>> THEN [text |-> "No requests captured yet."]
    ELSE LET requests == index.requests
             Host(req) == Get(req, "host", <<"unknown">>)
             Method(req) == Get(req, "method", <<"unknown">>)
             StatusGroup(req) == Get(req, "status_code", 0) \div 100
             RequestSize(req) == Get(req, "request_size", 0)
             ResponseSize(req) == Get(req, "response_size", 0)
             Each(K(_)) == [i \in DOMAIN requests |-> K(requests[i])]
         IN [text |-> "=== Traffic Statistics ===",
             total |-> Len(requests),
             total_request_size |-> SumOver(Tally(Each(RequestSize))),
             total_response_size |-> SumOver(Tally(Each(ResponseSize))),
             by_host |->
                Top(CountLines(SortedByCount(Tally(Each(Host)))),
                    TopHosts),
             by_method |->
                CountLines(SortedByCount(Tally(Each(Method)))),
             by_status |->
                [i \in 1..Cardinality(Tally(Each(StatusGroup))) |->
                    LET item == SortedByLabel(Tally(Each(StatusGroup)))[i]
                    IN <<<<item.key, "xx">>, item.count>>]]

\* ------------------------------------------------------- handle_tool_call
\* the keys of handlers
KnownTools ==
    {"list_requests", "read_request", "search_requests", "clear_requests",
     "get_request_stats", "export_har"}

\* handler = handlers.get(tool_name); if handler is None
UnknownTool(request_id, tool_name) ==
    [id |-> request_id, kind |-> "error", code |-> CodeMethodNotFound,
     message |-> <<"Unknown tool: ", tool_name>>]

\* a variant of the mapping that answers an exception's message as a result
HandleResultAsText(request_id, result) ==
    [id |-> request_id, kind |-> "result",
     content |-> <<[type |-> "text",
                    text |-> IF IsRaised(result) THEN [text |-> result.raised]
                             ELSE result]>>]

\* try: result = handler(tool_params) ... except Exception as e
HandleResult(request_id, result) ==
    IF IsRaised(result)
    THEN [id |-> request_id, kind |-> "error", code |-> CodeInternalError,
          message |-> result.raised]
    ELSE [id |-> request_id, kind |-> "result",
          content |-> <<[type |-> "text", text |-> result]>>]

\* the text of a response that carries a result
TextOf(r) == r.content[1].text

\* ----------------------------------------------------------------- reader
\* The server handles one tools/call at a time; request_id is the JSON-RPC id.
NoRequest == [id |-> 0, name |-> "none", arguments |-> [k \in {} |-> 0]]

NoResponse == [id |-> 0, kind |-> "none"]

ToolCall(request_id, name, params) ==
    [id |-> request_id, name |-> name, arguments |-> params]

Respond(r) ==
    /\ response' = r
    /\ rpc' = "idle"
    /\ rloc' = Idle

\* a variant of the call that rewrites index.json with what it listed
CallListRewriting(request_id, params) ==
    /\ rpc = "idle"
    /\ request' = ToolCall(request_id, "list_requests", params)
    /\ Respond(HandleResult(request_id,
                            ToolListRequests(ReadIndex(indexFile), params)))
    /\ indexFile' = ClearedIndex
    /\ UNCHANGED <<now, mainVars, files, writerVars>>

\* tools/call list_requests
CallList(request_id, params) ==
    /\ rpc = "idle"
    /\ request' = ToolCall(request_id, "list_requests", params)
    /\ Respond(HandleResult(request_id,
                            ToolListRequests(ReadIndex(indexFile), params)))
    /\ UNCHANGED <<now, mainVars, storeVars, writerVars>>

\* tools/call read_request
CallRead(request_id, params) ==
    /\ rpc = "idle"
    /\ request' = ToolCall(request_id, "read_request", params)
    /\ Respond(HandleResult(request_id, ToolReadRequest(files, params)))
    /\ UNCHANGED <<now, mainVars, storeVars, writerVars>>

\* tools/call get_request_stats
CallStats(request_id, params) ==
    /\ rpc = "idle"
    /\ request' = ToolCall(request_id, "get_request_stats", params)
    /\ Respond(HandleResult(request_id,
                            ToolGetRequestStats(ReadIndex(indexFile))))
    /\ UNCHANGED <<now, mainVars, storeVars, writerVars>>

\* tools/call with a name that is no key of handlers
CallUnknown(request_id, tool_name, params) ==
    /\ rpc = "idle"
    /\ request' = ToolCall(request_id, tool_name, params)
    /\ Respond(UnknownTool(request_id, tool_name))
    /\ UNCHANGED <<now, mainVars, storeVars, writerVars>>

\* tools/call search_requests: the query check and read_index()
SearchBegin(request_id, params) ==
    LET query == Lower(Get(params, "query", <<>>))
        search_headers == Get(params, "search_headers", FALSE)
        index == ReadIndex(indexFile)
    IN /\ rpc = "idle"
       /\ request' = ToolCall(request_id, "search_requests", params)
       /\ IF query = <<>>
          THEN Respond(HandleResult(request_id,
                                    [text |-> "Error: query is required"]))
          ELSE IF IsRaised(index)
          THEN Respond(HandleResult(request_id, index))
          ELSE IF index.requests = <<>>
          THEN Respond(HandleResult(request_id, SearchText(query, <<>>)))
          ELSE /\ rpc' = "search"
               /\ rloc' = [query |-> query, search_headers |-> search_headers,
                           todo |-> index.requests, matches |-> <<>>]
               /\ response' = response
       /\ UNCHANGED <<now, mainVars, storeVars, writerVars>>

\* one turn of the loop of tool_search_requests; after the last, the text
SearchStep ==
    /\ rpc = "search"
    /\ LET one == SearchOne(files, Head(rloc.todo), rloc.query,
                            rloc.search_headers, rloc.matches)
       IN IF IsRaised(one)
          THEN Respond(HandleResult(request.id, one))
          ELSE IF Tail(rloc.todo) = <<>>
          THEN Respond(HandleResult(request.id,
                                    SearchText(rloc.query, one.matches)))
          ELSE /\ rloc' = [rloc EXCEPT !.todo = Tail(@), !.matches = one.matches]
               /\ UNCHANGED <<rpc, response>>
    /\ UNCHANGED <<now, mainVars, storeVars, writerVars, request>>

\* tools/call export_har: read_index() and the choice of the ids
ExportBegin(request_id, params) ==
    LET given == Get(params, "request_ids", <<>>)
        index == ReadIndex(indexFile)
    IN /\ rpc = "idle"
       /\ request' = ToolCall(request_id, "export_har", params)
       /\ IF IsRaised(index)
          THEN Respond(HandleResult(request_id, index))
          ELSE LET request_ids ==
                     IF given = <<>>
                     THEN [i \in 1..Len(index.requests) |-> index.requests[i].id]
                     ELSE given
               IN IF request_ids = <<>>
                  THEN Respond(HandleResult(request_id,
                                            [text |-> "No requests to export."]))
                  ELSE /\ rpc' = "export"
                       /\ rloc' = [todo |-> request_ids, entries |-> <<>>]
                       /\ response' = response
       /\ UNCHANGED <<now, mainVars, storeVars, writerVars>>

\* one turn of the loop of tool_export_har; after the last, the document
ExportStep ==
    /\ rpc = "export"
    /\ LET one == ExportOne(files, Head(rloc.todo), rloc.entries)
       IN IF IsRaised(one)
          THEN Respond(HandleResult(request.id, one))
          ELSE IF Tail(rloc.todo) = <<>>
          THEN Respond(HandleResult(request.id, HarText(one.entries)))
          ELSE /\ rloc' = [rloc EXCEPT !.todo = Tail(@), !.entries = one.entries]
               /\ UNCHANGED <<rpc, response>>
    /\ UNCHANGED <<now, mainVars, storeVars, writerVars, request>>

\* tools/call clear_requests: clear_traffic lists TRAFFIC_DIR.glob("*.json").
\* `valid` remembers the ids read_request resolved when the clear began, and
\* `before` the directory as it was then.
ClearBegin(request_id) ==
    /\ rpc = "idle"
    /\ request' = ToolCall(request_id, "clear_requests", [k \in {} |-> 0])
    /\ rpc' = "clear_unlink"
    /\ rloc' = [todo |-> DOMAIN files,
                valid |-> {i \in DOMAIN files : ReadRequest(files, i) # None},
                before |-> [files |-> files, index |-> indexFile]]
    /\ UNCHANGED <<now, mainVars, storeVars, writerVars, response>>

\* what tool_clear_requests returns, whatever clear_traffic did
ClearedText == [text |-> "All captured requests have been cleared."]

\* a variant of unlink that leaves the file in place
UnlinkKeeps(dir, id) == dir

\* the directory without the file named id
Unlink(dir, id) == Remove(dir, id)

\* f.unlink() of one listed file. A handle a writer holds on it stays open on
\* the unlinked file. unlink() of a name that is gone raises, clear_traffic
\* logs it and ends, and tool_clear_requests returns its text all the same.
ClearUnlink ==
    /\ rpc = "clear_unlink"
    /\ \E id \in rloc.todo :
        IF id \in DOMAIN files
        THEN /\ files' = Unlink(files, id)
             /\ wcur' = [w \in AllWriters |->
                           IF wpc[w] = "record_open" /\ wcur[w].id = id
                           THEN [wcur[w] EXCEPT !.linked = FALSE]
                           ELSE wcur[w]]
             /\ rloc' = [rloc EXCEPT !.todo = @ \ {id}]
             /\ UNCHANGED <<rpc, response>>
        ELSE /\ Respond(HandleResult(request.id, ClearedText))
             /\ UNCHANGED <<files, wcur>>
    /\ UNCHANGED <<now, mainVars, indexFile, memIndex, wpc, ingested, completed, request>>

\* f.unlink() raises (the file is not the server's to remove, the directory
\* is read-only): except Exception logs it, clear_traffic ends there, and
\* tool_clear_requests returns its text
ClearUnlinkFails ==
    /\ rpc = "clear_unlink"
    /\ rloc.todo # {}
    /\ Respond(HandleResult(request.id, ClearedText))
    /\ UNCHANGED <<now, mainVars, storeVars, writerVars, request>>

\* open(INDEX_FILE, 'w') raises after the loop: the same except clause
ClearOpenFails ==
    /\ rpc = "clear_unlink"
    /\ rloc.todo = {}
    /\ Respond(HandleResult(request.id, ClearedText))
    /\ UNCHANGED <<now, mainVars, storeVars, writerVars, request>>

\* open(INDEX_FILE, 'w') once every listed file is unlinked
ClearOpenIndex ==
    /\ rpc = "clear_unlink"
    /\ rloc.todo = {}
    /\ indexFile' = Empty
    /\ rpc' = "clear_index"
    /\ UNCHANGED <<now, mainVars, files, writerVars, request, rloc, response>>

\* json.dump({"requests": []}, f), the close, and the text of the tool
ClearWriteIndex ==
    /\ rpc = "clear_index"
    /\ \E c \in FlushOutcomes(indexFile, ClearedIndex) : indexFile' = c
    /\ Respond(HandleResult(request.id, ClearedText))
    /\ UNCHANGED <<now, mainVars, files, writerVars, request>>

Clear(ids) ==
    \/ \E request_id \in ids : ClearBegin(request_id)
    \/ ClearUnlink
    \/ ClearOpenIndex
    \/ ClearWriteIndex

\* the tools/call requests a client sends: ids and arguments drawn from `in`
Query(in) ==
    \E request_id \in in.ids :
        \/ \E params \in in.list : CallList(request_id, params)
        \/ \E params \in in.read : CallRead(request_id, params)
        \/ \E params \in in.search : SearchBegin(request_id, params)
        \/ \E params \in in.export : ExportBegin(request_id, params)

QueryStep == SearchStep \/ ExportStep

\* the other tools/call requests: statistics, and names of no tool
Other(in) ==
    \E request_id \in in.ids :
        \/ \E params \in in.stats : CallStats(request_id, params)
        \/ \E tool_name \in in.unknown :
              CallUnknown(request_id, tool_name, NoParams)

\* --------------------------------------------------------- specifications
IdOf(flow, t) == GenerateId(flow.method, flow.url, t)

\* the client of the store model
StoreInputs ==
    [ids |-> {1},
     list |-> {NoParams},
     read |-> {[request_id |-> IdOf(FlowA, 0)]},
     search |-> {[query |-> <<"F">>]},
     export |-> {NoParams},
     stats |-> {NoParams},
     unknown |-> {"frobnicate"}]

\* the server has read no line and written no response; nothing is on its
\* standard input
NoInput == stdin = <<>> /\ lineno = 0 /\ stdout = <<>>

\* after construction: an empty directory, every TrafficCapture loaded from it
Init ==
    /\ now = 0
    /\ files = NoFiles
    /\ indexFile = Missing
    /\ memIndex = [w \in AllWriters |-> <<>>]
    /\ wpc = [w \in AllWriters |-> "idle"]
    /\ wcur = [w \in AllWriters |-> Idle]
    /\ ingested = 0
    /\ completed = <<>>
    /\ request = NoRequest
    /\ rpc = "idle"
    /\ rloc = Idle
    /\ response = NoResponse
    /\ NoInput

\* one proxy process and the server, their steps interleaved
Next ==
    \/ Tick
    \/ Writer("w1")
    \/ Query(StoreInputs)
    \/ QueryStep
    \/ Clear(StoreInputs.ids)

Spec == Init /\ [][Next]_vars

\* the same two processes, one operation at a time: an ingestion and a tool
\* call never overlap
NextSeq ==
    \/ rpc = "idle" /\ (Tick \/ Writer("w1"))
    \/ wpc["w1"] = "idle"
         /\ (Query(StoreInputs) \/ QueryStep \/ Clear(StoreInputs.ids))

SpecSeq == Init /\ [][NextSeq]_vars

\* the same, on a directory where unlink and open may fail
NextFaults ==
    \/ NextSeq
    \/ wpc["w1"] = "idle" /\ ClearUnlinkFails
    \/ wpc["w1"] = "idle" /\ ClearOpenFails

SpecFaults == Init /\ [][NextFaults]_vars

\* one operation at a time, the server asked any of its tools
NextTools ==
    \/ NextSeq
    \/ wpc["w1"] = "idle" /\ Other(StoreInputs)

SpecTools == Init /\ [][NextTools]_vars

\* one proxy process and a server that is never asked to clear
NextSingle ==
    \/ Tick
    \/ Writer("w1")
    \/ Query(StoreInputs)
    \/ QueryStep

SpecSingle == Init /\ [][NextSingle]_vars

\* two proxy processes capturing into the same directory
NextTwoWriters ==
    \/ Tick
    \/ Writer("w1")
    \/ Writer("w2")

SpecTwoWriters == Init /\ [][NextTwoWriters]_vars

\* a directory as one proxy process leaves it after capturing `flows` one
\* after the other, the i-th at clock reading i: the index lists every
\* capture in order, and a record file holds the last capture written to it
Captured(flows) ==
    LET data(i) == RequestData(flows[i], IdOf(flows[i], i), i)
        last(id) == CHOOSE i \in DOMAIN flows :
                       /\ data(i).id = id
                       /\ \A j \in DOMAIN flows : data(j).id = id => j <= i
    IN [files |-> [id \in {data(i).id : i \in DOMAIN flows} |-> data(last(id))],
        index |-> [i \in DOMAIN flows |-> IndexEntry(flows[i], data(i))]]

QueryFlows == {FlowA, FlowB}

\* every capture of at most MaxLen exchanges, and one of more than
\* DefaultLimit exchanges
QueryStores ==
    UNION {[1..n -> QueryFlows] : n \in 0..MaxLen}
    \cup {[i \in 1..(DefaultLimit + 1) |-> FlowA]}

ListInputs ==
    {h @@ m @@ st @@ u @@ l :
        h \in {NoParams, [host_filter |-> <<>>], [host_filter |-> <<"A">>],
               [host_filter |-> <<"a", "b">>]},
        m \in {NoParams, [method_filter |-> <<"get">>],
               [method_filter |-> <<"POST">>]},
        st \in {NoParams, [status_filter |-> 0], [status_filter |-> 200]},
        u \in {NoParams, [url_filter |-> <<"B">>]},
        l \in {NoParams, [limit |-> -1], [limit |-> 0], [limit |-> 1],
               [limit |-> 2]}}

SearchInputs ==
    {q @@ h :
        q \in {NoParams,
               [query |-> <<"F">>], [query |-> <<"a">>], [query |-> <<"A", "B">>],
               [query |-> <<"z">>], [query |-> <<"TEXT/">>],
               [query |-> <<"CONTENT-TYPE">>]},
        h \in {NoParams, [search_headers |-> TRUE], [search_headers |-> FALSE]}}

\* the client of the query model
QueryInputs ==
    [ids |-> {1, 2},
     list |-> ListInputs,
     read |-> {NoParams, [request_id |-> IdOf(FlowA, 1)],
               [request_id |-> IdOf(FlowB, 1)]},
     search |-> SearchInputs,
     export |-> {NoParams, [request_ids |-> <<>>],
                 [request_ids |-> <<IdOf(FlowB, 2), IdOf(FlowA, 1)>>]},
     stats |-> {NoParams},
     unknown |-> {"frobnicate"}]

\* the server started on a directory a proxy process has captured into
InitQuery ==
    \E flows \in QueryStores :
        LET store == Captured(flows)
        IN /\ now = Len(flows)
           /\ files = store.files
           /\ indexFile = [requests |-> store.index]
           /\ memIndex = [w \in AllWriters |->
                            IF w = "w1" THEN store.index ELSE <<>>]
           /\ wpc = [w \in AllWriters |-> "idle"]
           /\ wcur = [w \in AllWriters |-> Idle]
           /\ ingested = Len(flows)
           /\ completed = store.index
           /\ request = NoRequest
           /\ rpc = "idle"
           /\ rloc = Idle
           /\ response = NoResponse
           /\ NoInput

\* the call the client has sent, sent again under any id
Again ==
    [ids |-> QueryInputs.ids,
     list |-> IF request.name = "list_requests" THEN {request.arguments} ELSE {},
     read |-> IF request.name = "read_request" THEN {request.arguments} ELSE {},
     search |-> IF request.name = "search_requests" THEN {request.arguments}
                ELSE {},
     export |-> IF request.name = "export_har" THEN {request.arguments} ELSE {},
     stats |-> IF request.name = "get_request_stats" THEN {request.arguments}
               ELSE {},
     unknown |-> {request.name} \cap QueryInputs.unknown]

\* the server alone, asked one call and then the same call again: the
\* directory stays as it is
NextQuery ==
    \/ request = NoRequest /\ (Query(QueryInputs) \/ Other(QueryInputs))
    \/ request # NoRequest /\ (Query(Again) \/ Other(Again))
    \/ QueryStep

SpecQuery == InitQuery /\ [][NextQuery]_vars

\* what a file of the directory may have become behind the program's back
Damage == {"intact", "absent", "empty", "garbage", "undecodable"}

\* the content c of a file after the damage d ("absent" is dealt with apart)
Damaged(c, d) ==
    CASE d = "intact" -> c
      [] d = "empty" -> Empty
      [] d = "garbage" -> Garbage
      [] d = "undecodable" -> Undecodable
      [] d = "absent" -> Missing

\* the client of the damaged store
CorruptInputs ==
    [ids |-> {1},
     list |-> {NoParams, [host_filter |-> <<"z">>]},
     read |-> {[request_id |-> IdOf(FlowA, 1)]},
     search |-> {[query |-> <<"F">>]},
     export |-> {NoParams, [request_ids |-> <<IdOf(FlowA, 1)>>],
                 [request_ids |-> <<IdOf(FlowB, 2), IdOf(FlowA, 0),
                                    IdOf(FlowA, 1), IdOf(FlowB, 2)>>]},
     stats |-> {NoParams},
     unknown |-> {"frobnicate"}]

\* the server started on a directory a proxy process has captured at most
\* MaxLen exchanges into, index.json and every record file damaged or not
InitCorrupt ==
    \E flows \in UNION {[1..n -> QueryFlows] : n \in 0..MaxLen} :
        LET store == Captured(flows)
        IN \E d \in [DOMAIN store.files -> Damage], di \in Damage :
            /\ now = Len(flows)
            /\ files = [id \in {i \in DOMAIN store.files : d[i] # "absent"} |->
                          Damaged(store.files[id], d[id])]
            /\ indexFile = Damaged([requests |-> store.index], di)
            /\ memIndex = [w \in AllWriters |->
                             IF w = "w1" THEN store.index ELSE <<>>]
            /\ wpc = [w \in AllWriters |-> "idle"]
            /\ wcur = [w \in AllWriters |-> Idle]
            /\ ingested = Len(flows)
            /\ completed = store.index
            /\ request = NoRequest
            /\ rpc = "idle"
            /\ rloc = Idle
            /\ response = NoResponse
            /\ NoInput

\* the server alone, asked one call
NextCorrupt ==
    \/ request = NoRequest /\ (Query(CorruptInputs) \/ Other(CorruptInputs))
    \/ QueryStep

SpecCorrupt == InitCorrupt /\ [][NextCorrupt]_vars

\* index entries as the proxy writes them, and entries that lack fields (an
\* index.json written by another version or another tool)
StatEntries ==
    {IndexEntry(FlowA, RequestData(FlowA, IdOf(FlowA, 1), 1)),
     IndexEntry(FlowB, RequestData(FlowB, IdOf(FlowB, 2), 2)),
     [id |-> 3],
     [id |-> 4, method |-> <<"GET">>, status_code |-> 503, response_size |-> 7]}

\* the host of each entry of an index of more than TopHosts hosts
HostOrder == <<1, 2, 3, 4, 5, 6, 7, 8, 9, 10, 11, 12, 12, 11, 11, 3, 3, 3, 7>>

ManyHosts ==
    [j \in 1..Len(HostOrder) |->
        [id |-> j, timestamp |-> j, method |-> <<"GET">>, url |-> <<"a">>,
         host |-> <<"h", ToString(HostOrder[j])>>,
         status_code |-> IF HostOrder[j] % 2 = 0 THEN 404 ELSE 200,
         content_type |-> <<"text/">>,
         request_size |-> HostOrder[j], response_size |-> 2]]
    \o <<[id |-> 99]>>

\* the server started on a directory that holds an index.json only
InitStats ==
    \E index \in UNION {[1..n -> StatEntries] : n \in 0..(MaxLen + 1)}
                 \cup {ManyHosts} :
        /\ now = 0
        /\ files = NoFiles
        /\ indexFile = [requests |-> index]
        /\ memIndex = [w \in AllWriters |-> <<>>]
        /\ wpc = [w \in AllWriters |-> "idle"]
        /\ wcur = [w \in AllWriters |-> Idle]
        /\ ingested = 0
        /\ completed = <<>>
        /\ request = NoRequest
        /\ rpc = "idle"
        /\ rloc = Idle
        /\ response = NoResponse
        /\ NoInput

NextStats == \E request_id \in {1, 2} : CallStats(request_id, NoParams)

SpecStats == InitStats /\ [][NextStats]_vars

\* ------------------------------------------------ bodies through the codec
\* the bytes a captured body is made of: an ASCII byte, the two bytes of one
\* multi-byte character, and a byte that is no UTF-8
CodecBytes == {"a", "xC3", "xA9", "xFF"}

\* flow.request.content / flow.response.content: absent, or up to MaxLen bytes
CodecBodies ==
    UNION {[1..n -> CodecBytes] : n \in 0..MaxLen} \cup {NoContent}

\* the headers of a message: without a content-type, or declaring one
CodecHeaders ==
    {NoHeaders,
     <<"Content-Type">> :> <<"text/">>,
     <<"CONTENT-TYPE">> :> <<"application/json">>,
     <<"content-type">> :> <<"IMAGE/", "png">>,
     <<"Content-Type">> :> <<"application/pdf">>}

\* completed exchanges whose request, or whose response, carries such a body
CodecFlows ==
    {[FlowB EXCEPT !.reqHeaders = h, !.reqContent = b] :
        h \in CodecHeaders, b \in CodecBodies}
    \cup {[FlowB EXCEPT !.respHeaders = h, !.respContent = b] :
        h \in CodecHeaders, b \in CodecBodies}

\* one proxy process ingests one exchange into an empty directory, and the
\* server reads records back
NextCodec ==
    \/ \E flow \in CodecFlows : ingested = 0 /\ ResponseBegin("w1", flow)
    \/ WriteRecord("w1")
    \/ OpenIndex("w1")
    \/ WriteIndex("w1")
    \/ /\ wpc["w1"] = "idle"
       /\ \E request_id \in {1, 2} : \E id \in DOMAIN files :
             CallRead(request_id, [request_id |-> id])

SpecCodec == Init /\ [][NextCodec]_vars

\* ----------------------------------------------------------- the server loop
\* tool_search_requests' loop over the index entries `todo`, run to its end
RECURSIVE SearchAll(_, _, _, _, _)
SearchAll(dir, todo, query, search_headers, matches) ==
    IF todo = <<>> THEN [matches |-> matches]
    ELSE LET one == SearchOne(dir, Head(todo), query, search_headers, matches)
         IN IF IsRaised(one) THEN one
            ELSE SearchAll(dir, Tail(todo), query, search_headers, one.matches)

\* tool_export_har's loop over the ids `todo`, run to its end
RECURSIVE ExportAll(_, _, _)
ExportAll(dir, todo, entries) ==
    IF todo = <<>> THEN [entries |-> entries]
    ELSE LET one == ExportOne(dir, Head(todo), entries)
         IN IF IsRaised(one) THEN one
            ELSE ExportAll(dir, Tail(todo), one.entries)

\* handler(tool_params) for a tool of the table, on a directory no other
\* process touches meanwhile: what it returns, or the exception that leaves
\* it. Every handler but clear_requests and get_request_stats begins with
\* params.get, which None has not.
Handler(tool_name, tool_params, dir, f) ==
    LET index == ReadIndex(f)
    IN CASE tool_name = "clear_requests" -> ClearedText
         [] tool_name = "get_request_stats" -> ToolGetRequestStats(index)
         [] OTHER ->
            IF tool_params = None THEN Raised("AttributeError")
            ELSE CASE tool_name = "list_requests" ->
                        ToolListRequests(index, tool_params)
                   [] tool_name = "read_request" ->
                        ToolReadRequest(dir, tool_params)
                   [] tool_name = "search_requests" ->
                        LET query == Lower(Get(tool_params, "query", <<>>))
                            all == SearchAll(dir, index.requests, query,
                                             Get(tool_params, "search_headers",
                                                 FALSE), <<>>)
                        IN IF query = <<>>
                           THEN [text |-> "Error: query is required"]
                           ELSE IF IsRaised(index) THEN index
                           ELSE IF IsRaised(all) THEN all
                           ELSE SearchText(query, all.matches)
                   [] tool_name = "export_har" ->
                        LET given == Get(tool_params, "request_ids", <<>>)
                            request_ids ==
                                IF given = <<>>
                                THEN [i \in 1..Len(index.requests) |->
                                         index.requests[i].id]
                                ELSE given
                            all == ExportAll(dir, request_ids, <<>>)
                        IN IF IsRaised(index) THEN index
                           ELSE IF request_ids = <<>>
                           THEN [text |-> "No requests to export."]
                           ELSE IF IsRaised(all) THEN all
                           ELSE HarText(all.entries)

\* handle_tool_call(request_id, params): the response it returns, or the
\* exception that leaves it. params.get and handlers.get are outside its try.
\* A name that is absent is None, which no key of handlers is and which an
\* f-string writes as "None".
HandleToolCall(request_id, params, dir, f) ==
    IF params = None THEN Raised("AttributeError")
    ELSE LET tool_name == Get(params, "name", "None")
             tool_params == Get(params, "arguments", NoParams)
         IN IF tool_name \notin KnownTools
            THEN UnknownTool(request_id, tool_name)
            ELSE HandleResult(request_id,
                              Handler(tool_name, tool_params, dir, f))

\* One turn of the while loop of main() on a line read: the response it
\* sends, or None when it sends none. A line is blank, or no JSON
\* (json.loads raises, continue), or a JSON value that is no object
\* (request.get raises, caught by the except of the loop), or an object.
MainResponse(line, dir, f) ==
    IF line.json # "object" THEN None
    ELSE LET req == line.request
             request_id == Get(req, "id", None)
             method == Get(req, "method", "None")
             params == Get(req, "params", NoParams)
         IN CASE method = "initialize" ->
                   [id |-> request_id, kind |-> "result", result |-> "initialize"]
              [] method = "notifications/initialized" -> None
              [] method = "tools/list" ->
                   [id |-> request_id, kind |-> "result", result |-> "tools"]
              [] method = "tools/call" ->
                   LET r == HandleToolCall(request_id, params, dir, f)
                   IN IF IsRaised(r) THEN None ELSE r
              [] method = "resources/list" ->
                   [id |-> request_id, kind |-> "result", result |-> "resources"]
              [] OTHER ->
                   IF "id" \notin DOMAIN req THEN None
                   ELSE [id |-> request_id, kind |-> "error",
                         code |-> CodeMethodNotFound,
                         message |-> <<"Method not found: ", method>>]

\* the line makes handle_tool_call run tool_clear_requests
CallsClear(line) ==
    /\ line.json = "object"
    /\ Get(line.request, "method", "None") = "tools/call"
    /\ Get(line.request, "params", NoParams) # None
    /\ Get(Get(line.request, "params", NoParams), "name", "None")
          = "clear_requests"

\* main(): sys.stdin.readline() gives the next line, the turn of the loop
\* runs to its end, send_response included, before the next readline. At the
\* end of the input readline gives "" and the loop is left.
Main ==
    /\ rpc = "idle"
    /\ lineno < Len(stdin)
    /\ LET line == stdin[lineno + 1]
           sent == MainResponse(line, files, indexFile)
       IN /\ lineno' = lineno + 1
          /\ stdout' = IF sent = None THEN stdout ELSE Append(stdout, sent)
          /\ IF CallsClear(line)
             THEN files' = NoFiles /\ indexFile' = ClearedIndex
             ELSE UNCHANGED storeVars
    /\ UNCHANGED <<now, stdin, writerVars, readerVars>>

\* a JSON-RPC request line
Line(req) == [json |-> "object", request |-> req]

\* tools/call lines
CallLine(request_id, params) ==
    Line([id |-> request_id, method |-> "tools/call", params |-> params])

\* the lines a client may write
MainLines ==
    {[json |-> "blank"], [json |-> "malformed"], [json |-> "value"],
     Line([method |-> "notifications/initialized"]),
     Line([id |-> 1, method |-> "initialize", params |-> NoParams]),
     Line([id |-> 2, method |-> "tools/list"]),
     Line([id |-> 3, method |-> "resources/list"]),
     Line([method |-> "bogus"]),
     Line([id |-> 4, method |-> "bogus"]),
     Line([id |-> 5, method |-> "tools/call"]),
     CallLine(6, None),
     CallLine(7, [name |-> "frobnicate", arguments |-> NoParams]),
     CallLine(8, [name |-> "list_requests", arguments |-> None]),
     CallLine(9, [name |-> "list_requests"]),
     CallLine(10, [name |-> "read_request",
                   arguments |-> [request_id |-> IdOf(FlowA, 0)]]),
     CallLine(11, [name |-> "search_requests",
                   arguments |-> [query |-> <<"F">>]]),
     CallLine(12, [name |-> "export_har", arguments |-> NoParams]),
     CallLine(13, [name |-> "get_request_stats", arguments |-> NoParams]),
     CallLine(14, [name |-> "clear_requests", arguments |-> NoParams])}

\* the server started on a directory that holds one captured exchange, or
\* whose index.json cannot be decoded, with at most MaxLen lines on its input
InitMain ==
    \E f \in {[requests |-> <<IndexEntry(FlowA, RequestData(FlowA, IdOf(FlowA, 0), 0))>>],
               Undecodable} :
    \E input \in UNION {[1..n -> MainLines] : n \in 0..MaxLen} :
        /\ now = 0
        /\ files = Put(NoFiles, IdOf(FlowA, 0), RequestData(FlowA, IdOf(FlowA, 0), 0))
        /\ indexFile = f
        /\ memIndex = [w \in AllWriters |-> <<>>]
        /\ wpc = [w \in AllWriters |-> "idle"]
        /\ wcur = [w \in AllWriters |-> Idle]
        /\ ingested = 0
        /\ completed = <<>>
        /\ request = NoRequest
        /\ rpc = "idle"
        /\ rloc = Idle
        /\ response = NoResponse
        /\ stdin = input
        /\ lineno = 0
        /\ stdout = <<>>

NextMain == Main

SpecMain == InitMain /\ [][NextMain]_vars

\* -------------------------------------------------------- shared notions
Range(s) == {s[i] : i \in DOMAIN s}

\* no ingestion and no tool call is mid-flight
Quiescent == rpc = "idle" /\ \A w \in AllWriters : wpc[w] = "idle"

\* the entries of index.json, as read_index() returns them
Indexed == ReadIndex(indexFile).requests

\* ------------------------------------------------------------------ C1
\* C1: whenever no operation is mid-flight, every entry of the on-disk index
\* has exactly one record file and is the only entry of its id, and every
\* record file has exactly one index entry.
C1_IndexIsProjectionOfRecords ==
    Quiescent =>
        /\ \A i \in DOMAIN Indexed :
              /\ Indexed[i].id \in DOMAIN files
              /\ \A j \in DOMAIN Indexed : Indexed[j].id = Indexed[i].id => j = i
        /\ \A id \in DOMAIN files : \E i \in DOMAIN Indexed : Indexed[i].id = id

\* ------------------------------------------------------------------ C2
\* C2: with a single writer that started on an empty store, whenever no
\* ingestion is mid-flight read_index() returns the entries of the N ingestions
\* completed so far, in completion order, and read_request resolves each id.
C2_IndexListsIngestionsInOrder ==
    wpc["w1"] = "idle" =>
        /\ Indexed = completed
        /\ Len(Indexed) = ingested
        /\ \A i \in DOMAIN Indexed : ReadRequest(files, Indexed[i].id) # None

\* two ingestions of different exchanges have completed and are listed
C2_TwoIngested ==
    /\ wpc["w1"] = "idle"
    /\ Len(completed) = 2
    /\ completed[1] # completed[2]
    /\ Indexed = completed

\* ------------------------------------------------------------------ C3
\* filters and limits a client may pass to list_requests
C3_ListInputs ==
    {h @@ m @@ u @@ l :
        h \in {NoParams, [host_filter |-> <<"A">>]},
        m \in {NoParams, [method_filter |-> <<"get">>]},
        u \in {NoParams, [status_filter |-> 200], [url_filter |-> <<"a">>]},
        l \in {NoParams, [limit |-> 0], [limit |-> 1]}}

\* the step on which tool_clear_requests returns
ClearReturns == request.name = "clear_requests" /\ rpc # "idle" /\ rpc' = "idle"

ResponseReturns(w) == wpc[w] = "index_open" /\ wpc'[w] = "idle"

\* C4: when an ingestion completes, index.json holds the entries it held when
\* the ingestion began, followed by the new entry.
C4_IngestionAppendsToDiskIndex ==
    [][\A w \in AllWriters :
          ResponseReturns(w) =>
             indexFile' = [requests |-> Append(ReadIndex(wcur[w].before).requests,
                                               wcur[w].entry)]]_vars

\* ------------------------------------------------------------------ C5
\* C5: no two ingestions are given the same id: the completed ingestions have
\* pairwise different ids, and so have the entries of the index.
C5_IdsNeverReused ==
    /\ \A i, j \in DOMAIN completed :
          i # j => completed[i].id # completed[j].id
    /\ \A i, j \in DOMAIN Indexed :
          i # j => Indexed[i].id # Indexed[j].id

\* ------------------------------------------------------------------ C6
\* C6: a writer's index write replaces the file by the writer's own copy:
\* once it returns with a parseable file, every completed entry that the
\* writer's copy lacks is absent from index.json, whatever its record file.
C6_StaleCopyOverwritesIndex ==
    [][\A w \in AllWriters :
          (ResponseReturns(w) /\ ~Unparseable(indexFile')) =>
             \A i \in DOMAIN completed :
                completed[i] \notin Range(memIndex[w]) =>
                   completed[i] \notin Range(ReadIndex(indexFile').requests)]_vars

\* two ingestions are done, both record files are there, and the index holds
\* the later entry only
C6_LostUpdate ==
    /\ \A w \in AllWriters : wpc[w] = "idle"
    /\ Len(completed) = 2
    /\ completed[1].id # completed[2].id
    /\ \A i \in {1, 2} : ReadRequest(files, completed[i].id) # None
    /\ Indexed = <<completed[2]>>

\* ------------------------------------------------------------------ C7
\* the file of id is absent, or json.load fails on it
Unreadable(dir, id) == id \notin DOMAIN dir \/ Unparseable(dir[id])

\* a step of the server that answers read_request
ReadAnswered ==
    /\ rpc = "idle" /\ rpc' = "idle"
    /\ request'.name = "read_request"
    /\ <<request, response>>' # <<request, response>>

\* C7: a turn of the search or export loop on an id whose record is absent or
\* unparseable adds nothing and goes on to the next id or to the text of what
\* was collected; read_request of such an id answers the not-found text; and
\* no response is an error.
C7_UnreadableRecordIsSkipped ==
    [][/\ (rpc = "search" /\ Unreadable(files, Head(rloc.todo).id)) =>
             \/ rpc' = "search" /\ rloc'.matches = rloc.matches
             \/ /\ rpc' = "idle"
                /\ response' = HandleResult(request.id,
                                            SearchText(rloc.query, rloc.matches))
       /\ (rpc = "export" /\ Unreadable(files, Head(rloc.todo))) =>
             \/ rpc' = "export" /\ rloc'.entries = rloc.entries
             \/ /\ rpc' = "idle"
                /\ response' = HandleResult(request.id, HarText(rloc.entries))
       /\ (ReadAnswered /\ Unreadable(files, request'.arguments.request_id)) =>
             response' = HandleResult(request'.id,
                            [text |-> "Error: Request not found",
                             id |-> request'.arguments.request_id])
       /\ response'.kind # "error"]_vars

\* the index lists two records, the file of the first is gone, and a search
\* for text that every record holds has passed the first with no match
C7_SearchPassedMissingRecord ==
    /\ rpc = "search"
    /\ rloc.query = <<"f">>
    /\ Len(completed) = 2
    /\ Indexed = completed
    /\ completed[1].id # completed[2].id
    /\ completed[1].id \notin DOMAIN files
    /\ rloc.todo = <<completed[2]>>
    /\ rloc.matches = <<>>

\* ------------------------------------------------------- C8, C9 and C10
\* q occurs in text, letter case apart
Occurs(text, q) ==
    \E i \in 1..(Len(text) + 1) :
        /\ i + Len(q) - 1 <= Len(text)
        /\ \A j \in 1..Len(q) : LowerTok(text[i + j - 1]) = LowerTok(q[j])

\* the server has answered the tool `name` with a result
Answered(name) ==
    rpc = "idle" /\ request.name = name /\ response.kind = "result"

\* the text list_requests gives for the entries `shown`
ListText(shown) ==
    IF shown = <<>> THEN [text |-> "No requests captured yet."]
    ELSE [text |-> "Found captured requests", count |-> Len(shown),
          requests |-> shown]

\* req satisfies every filter of params, an absent or empty one being no filter
SatisfiesFilters(req, params) ==
    /\ \/ "host_filter" \notin DOMAIN params
       \/ params.host_filter = <<>>
       \/ Occurs(req.host, params.host_filter)
    /\ \/ "method_filter" \notin DOMAIN params
       \/ params.method_filter = <<>>
       \/ /\ Len(req.method) = Len(params.method_filter)
          /\ Occurs(req.method, params.method_filter)
    /\ \/ "status_filter" \notin DOMAIN params
       \/ req.status_code = params.status_filter
    /\ \/ "url_filter" \notin DOMAIN params
       \/ params.url_filter = <<>>
       \/ Occurs(req.url, params.url_filter)

\* C8: list_requests with no limit answers the index entries that satisfy
\* every supplied filter, in index order, each time it is called.
C8_ListAnswersFilteredEntries ==
    (/\ Answered("list_requests")
     /\ "limit" \in DOMAIN request.arguments
     /\ request.arguments.limit <= 0) =>
        TextOf(response)
          = ListText(SelectSeq(Indexed,
                               LAMBDA req : SatisfiesFilters(req, request.arguments)))

\* the last min(L, M) of the M entries of kept when L > 0, all of them
\* otherwise
Limited(kept, L) ==
    LET M == Len(kept)
        k == IF L > 0 THEN (IF L < M THEN L ELSE M) ELSE M
    IN [i \in 1..k |-> kept[M - k + i]]

\* C9: list_requests answers the last min(L, M) of the M entries its filters
\* keep when the limit L is positive, all M when L <= 0, and takes L = 100
\* when no limit is given.
C9_LimitKeepsTail ==
    Answered("list_requests") =>
        LET params == request.arguments
            L == IF "limit" \in DOMAIN params THEN params.limit ELSE 100
            kept == SelectSeq(Indexed, LAMBDA req : ListKeeps(req, params))
        IN TextOf(response) = ListText(Limited(kept, L))

\* list_requests without arguments on more than 100 entries has answered 100
\* of them, the oldest one dropped
C9_DefaultLimitCuts ==
    /\ Answered("list_requests")
    /\ request.arguments = NoParams
    /\ Len(Indexed) = 101
    /\ TextOf(response).count = 100
    /\ TextOf(response).requests[1] = Indexed[2]
    /\ TextOf(response).requests[100] = Indexed[101]

\* the match categories, in the order they are reported
Categories ==
    <<"request body", "response body", "URL", "request headers",
      "response headers">>

InHeaders(headers, q) ==
    \E k \in DOMAIN headers : Occurs(k, q) \/ Occurs(headers[k], q)

\* the category c of the record data holds q
Hits(data, q, search_headers, c) ==
    CASE c = "request body" -> Occurs(data.request.content, q)
      [] c = "response body" -> Occurs(data.response.content, q)
      [] c = "URL" -> Occurs(data.request.url, q)
      [] c = "request headers" ->
            search_headers /\ InHeaders(data.request.headers, q)
      [] c = "response headers" ->
            search_headers /\ InHeaders(data.response.headers, q)

HitCategories(data, q, search_headers) ==
    SelectSeq(Categories, LAMBDA c : Hits(data, q, search_headers, c))

\* C10: search_requests answers, in index order, the indexed records that
\* hold the query, letter case apart, in a body, in the URL or, when
\* search_headers is set, in a header name or value; each with exactly the
\* categories that hold it; no other record.
C10_SearchAnswersOccurrences ==
    (Answered("search_requests")
       /\ Get(request.arguments, "query", <<>>) # <<>>) =>
        LET q == request.arguments.query
            search_headers == /\ "search_headers" \in DOMAIN request.arguments
                              /\ request.arguments.search_headers
            cats(e) == HitCategories(ReadRequest(files, e.id), q, search_headers)
            hit == SelectSeq(Indexed,
                             LAMBDA e : /\ ReadRequest(files, e.id) # None
                                        /\ cats(e) # <<>>)
            matches == [i \in DOMAIN hit |->
                          [id |-> hit[i].id, method |-> hit[i].method,
                           url |-> hit[i].url, found_in |-> cats(hit[i])]]
        IN TextOf(response) = SearchText(Lower(q), matches)

\* of two indexed records a search has answered the one that holds the query
\* in its URL in another letter case, and left the other out
C10_OneHitOneMiss ==
    /\ Answered("search_requests")
    /\ Get(request.arguments, "query", <<>>) = <<"A", "B">>
    /\ Len(Indexed) = 2
    /\ Indexed[1].url = <<"a">>
    /\ Indexed[2].url = <<"A", "b">>
    /\ TextOf(response).text = "Found requests matching"
    /\ TextOf(response).count = 1
    /\ TextOf(response).matches[1].id = Indexed[2].id
    /\ TextOf(response).matches[1].found_in = <<"URL">>

\* ---------------------------------------------------------- C11 and C12
\* the ids export_har goes through: the given ones, or every indexed id
ExportIds ==
    LET given == Get(request.arguments, "request_ids", <<>>)
    IN IF given = <<>> THEN [i \in DOMAIN Indexed |-> Indexed[i].id] ELSE given

NothingToExport == [text |-> "No requests to export."]

\* C11: export_har without ids answers the nothing-to-export text on an empty
\* store, and on any other a HAR document with one entry per record, as many
\* as the index lists and as there are record files, the i-th entry being
\* that of the i-th index entry.
C11_ExportAllInIndexOrder ==
    (Answered("export_har")
       /\ Get(request.arguments, "request_ids", <<>>) = <<>>) =>
        IF Indexed = <<>> THEN TextOf(response) = NothingToExport
        ELSE /\ TextOf(response).text = "HAR"
             /\ Len(TextOf(response).entries) = Len(Indexed)
             /\ Len(TextOf(response).entries) = Cardinality(DOMAIN files)
             /\ \A i \in DOMAIN Indexed :
                   LET entry == TextOf(response).entries[i]
                   IN /\ entry.startedDateTime = Indexed[i].timestamp
                      /\ entry.request.method = Indexed[i].method
                      /\ entry.request.url = Indexed[i].url
                      /\ entry.response.status = Indexed[i].status_code

\* export_har without ids has answered a document of two different entries
C11_TwoExported ==
    /\ Answered("export_har")
    /\ Get(request.arguments, "request_ids", <<>>) = <<>>
    /\ Len(Indexed) = 2
    /\ Indexed[1].url # Indexed[2].url
    /\ TextOf(response).text = "HAR"
    /\ Len(TextOf(response).entries) = 2
    /\ TextOf(response).entries[2].request.url = Indexed[2].url

\* C12: when none of the ids export_har goes through has a readable record,
\* the answer is the nothing-to-export text.
C12_NothingResolvedIsText ==
    (Answered("export_har")
       /\ \A i \in DOMAIN ExportIds : Unreadable(files, ExportIds[i])) =>
        TextOf(response) = NothingToExport

\* ------------------------------------------------------------------ C13
\* the call the server has answered names no tool, or lacks the parameter
\* its tool requires
InputError ==
    \/ request.name \notin KnownTools
    \/ request.name = "read_request" /\ "request_id" \notin DOMAIN request.arguments
    \/ request.name = "search_requests" /\ "query" \notin DOMAIN request.arguments

\* C13: the answer to a call that names no tool, or that lacks request_id for
\* read_request or query for search_requests, carries an error object and no
\* result.
C13_InputErrorsAreErrors ==
    (rpc = "idle" /\ request # NoRequest /\ InputError) =>
        response.kind = "error"

\* ------------------------------------------------------------------ C14
\* the tools that begin with read_index()
IndexReaders ==
    {"list_requests", "search_requests", "get_request_stats", "export_har"}

\* C14: every answer carries the id of its call and is either an error or a
\* result, never both; a name of no tool is answered error -32601; a handler
\* that raised is answered error -32603 with the exception's text (a tool that
\* reads an undecodable index.json raises UnicodeDecodeError); every other
\* answer is a result of one text item, and an error to a known tool comes
\* with an undecodable file.
C14_OutcomesMapToCodes ==
    (rpc = "idle" /\ request # NoRequest) =>
        /\ response.id = request.id
        /\ \/ /\ response.kind = "result"
              /\ DOMAIN response = {"id", "kind", "content"}
              /\ Len(response.content) = 1
              /\ response.content[1].type = "text"
           \/ /\ response.kind = "error"
              /\ DOMAIN response = {"id", "kind", "code", "message"}
        /\ request.name \notin KnownTools =>
              /\ response.kind = "error"
              /\ response.code = -32601
              /\ response.message = <<"Unknown tool: ", request.name>>
        /\ (request.name \in IndexReaders /\ indexFile = Undecodable) =>
              /\ response.kind = "error"
              /\ response.code = -32603
              /\ response.message = "UnicodeDecodeError"
        /\ (request.name \in KnownTools /\ response.kind = "error") =>
              /\ response.code = -32603
              /\ \/ indexFile = Undecodable
                 \/ \E id \in DOMAIN files : files[id] = Undecodable

\* list_requests on an undecodable index.json has been answered -32603
C14_HandlerRaised ==
    /\ rpc = "idle"
    /\ request.name = "list_requests"
    /\ indexFile = Undecodable
    /\ response = [id |-> request.id, kind |-> "error", code |-> -32603,
                   message |-> "UnicodeDecodeError"]

\* ------------------------------------------------------------------ C15
\* the five tools that read the store
ReadTools == IndexReaders \cup {"read_request"}

\* index.json or the file of a record the index lists is missing or cannot
\* be parsed
StorageDamaged ==
    \/ indexFile \in {Missing, Empty, Garbage, Undecodable}
    \/ \E i \in DOMAIN completed :
          \/ completed[i].id \notin DOMAIN files
          \/ files[completed[i].id] \in {Empty, Garbage, Undecodable}

\* C15: on a store whose index.json or record files are missing or cannot be
\* parsed, each of the five reading tools answers a result, never an error.
C15_DamagedStorageNeverErrors ==
    (rpc = "idle" /\ request.name \in ReadTools /\ StorageDamaged) =>
        response.kind = "result"

\* ------------------------------------------------------------------ C16
\* a response that carries the one text as its result and no error
ResultOf(request_id, text) ==
    [id |-> request_id, kind |-> "result",
     content |-> <<[type |-> "text", text |-> text]>>]

\* C16: read_request of an id that has no record file, list_requests whose
\* filters keep no entry, and search_requests whose query no record holds are
\* each answered a result carrying the not-found or no-match text, with no
\* error object.
C16_NotFoundIsResult ==
    (rpc = "idle" /\ request # NoRequest) =>
        /\ (/\ request.name = "read_request"
            /\ "request_id" \in DOMAIN request.arguments
            /\ request.arguments.request_id \notin DOMAIN files) =>
              response = ResultOf(request.id,
                                  [text |-> "Error: Request not found",
                                   id |-> request.arguments.request_id])
        /\ (/\ request.name = "list_requests"
            /\ \A i \in DOMAIN Indexed :
                  ~ListKeeps(Indexed[i], request.arguments)) =>
              response = ResultOf(request.id,
                                  [text |-> "No requests captured yet."])
        /\ (/\ request.name = "search_requests"
            /\ Get(request.arguments, "query", <<>>) # <<>>
            /\ \A i \in DOMAIN Indexed :
                  HitCategories(ReadRequest(files, Indexed[i].id),
                                request.arguments.query,
                                Get(request.arguments, "search_headers", FALSE))
                    = <<>>) =>
              response = ResultOf(request.id,
                                  [text |-> "No requests found matching",
                                   query |-> Lower(request.arguments.query)])

\* read_request of an id without a record file has been answered the
\* not-found text, on a store that holds another record
C16_UnknownIdAnswered ==
    /\ rpc = "idle"
    /\ request.name = "read_request"
    /\ "request_id" \in DOMAIN request.arguments
    /\ request.arguments.request_id \notin DOMAIN files
    /\ files # NoFiles
    /\ response.kind = "result"
    /\ TextOf(response).text = "Error: Request not found"

\* ------------------------------------------------------------------ C17
\* C17: when clear_requests returns, either no record file is left and the
\* index is the empty sequence, or the record files and index.json are as
\* they were when the clear began.
C17_ClearIsAllOrNothing ==
    [][ClearReturns =>
        \/ files' = NoFiles /\ ReadIndex(indexFile').requests = <<>>
        \/ files' = rloc.before.files /\ indexFile' = rloc.before.index]_vars

\* ------------------------------------------------------------------ C18
\* a step of the server: the proxy's steps leave the server's variables alone
ServerStep == readerVars' # readerVars

\* C18: a step the server takes for list_requests, read_request,
\* search_requests, get_request_stats or export_har leaves index.json and
\* every record file as they are; a step of the server that changes either
\* is a step of clear_requests.
C18_OnlyClearChangesStore ==
    [][ServerStep =>
        /\ request'.name \in ReadTools => UNCHANGED storeVars
        /\ storeVars' # storeVars => request'.name = "clear_requests"]_vars

\* get_request_stats has been answered on a store that holds a record
C18_StatsOnRecords ==
    /\ rpc = "idle"
    /\ request.name = "get_request_stats"
    /\ response.kind = "result"
    /\ TextOf(response).text = "=== Traffic Statistics ==="
    /\ files # NoFiles
    /\ Indexed = completed

\* ------------------------------------------------------------------ C19
\* the sum of the numbers of a sequence
RECURSIVE SumSeq(_)
SumSeq(q) == IF q = <<>> THEN 0 ELSE Head(q) + SumSeq(Tail(q))

\* how many entries of the index have the value v for the field, an absent
\* field counting as the default
CountWhere(field, default, v) ==
    Cardinality({i \in DOMAIN Indexed : Get(Indexed[i], field, default) = v})

\* lines is a list of <<key, count>> with each key once and its true count,
\* keys being the key of each index entry in turn (all of them are in lines
\* when whole)
CountsAreTrue(lines, keys, whole) ==
    /\ \A i, j \in DOMAIN lines : lines[i][1] = lines[j][1] => i = j
    /\ \A i \in DOMAIN lines :
          /\ \E k \in DOMAIN keys : keys[k] = lines[i][1]
          /\ lines[i][2]
               = Cardinality({k \in DOMAIN keys : keys[k] = lines[i][1]})
    /\ whole => \A k \in DOMAIN keys :
                   \E i \in DOMAIN lines : lines[i][1] = keys[k]

Descending(lines) ==
    \A i, j \in DOMAIN lines : i < j => lines[i][2] >= lines[j][2]

\* C19: over a non-empty index get_request_stats reports the number of
\* entries; the sums of their request and response sizes (absent = 0); every
\* method with its count, highest count first, and every status class
\* (status_code // 100, then "xx") with its count, lowest class first, each
\* list summing to the total; and the hosts with the highest counts, at most
\* 10, highest first; an absent method or host counting as "unknown" and an
\* absent status as 0.
C19_StatsAggregateIndex ==
    (Answered("get_request_stats") /\ Indexed # <<>>) =>
        LET r == TextOf(response)
            size(field) == [i \in DOMAIN Indexed |-> Get(Indexed[i], field, 0)]
            Host(req) == Get(req, "host", <<"unknown">>)
            Method(req) == Get(req, "method", <<"unknown">>)
            Label(req) == <<Get(req, "status_code", 0) \div 100, "xx">>
            hosts == {Host(Indexed[i]) : i \in DOMAIN Indexed}
            Of(F(_)) == [i \in DOMAIN Indexed |-> F(Indexed[i])]
        IN /\ r.total = Len(Indexed)
           /\ r.total_request_size = SumSeq(size("request_size"))
           /\ r.total_response_size = SumSeq(size("response_size"))
           /\ CountsAreTrue(r.by_method, Of(Method), TRUE)
           /\ Descending(r.by_method)
           /\ SumSeq([i \in DOMAIN r.by_method |-> r.by_method[i][2]]) = r.total
           /\ CountsAreTrue(r.by_status, Of(Label), TRUE)
           /\ \A i, j \in DOMAIN r.by_status :
                 i < j => r.by_status[i][1][1] < r.by_status[j][1][1]
           /\ SumSeq([i \in DOMAIN r.by_status |-> r.by_status[i][2]]) = r.total
           /\ CountsAreTrue(r.by_host, Of(Host), FALSE)
           /\ Descending(r.by_host)
           /\ Len(r.by_host)
                = (IF Cardinality(hosts) < 10 THEN Cardinality(hosts) ELSE 10)
           /\ \A h \in hosts :
                 (\A i \in DOMAIN r.by_host : r.by_host[i][1] # h) =>
                    \A i \in DOMAIN r.by_host :
                       r.by_host[i][2] >= CountWhere("host", <<"unknown">>, h)

\* statistics of an index of 13 hosts, one entry without any field: 10 hosts
\* are listed, the most frequent first, and the entry without status is in
\* class 0
C19_TopTenOfThirteen ==
    /\ Answered("get_request_stats")
    /\ Indexed = ManyHosts
    /\ TextOf(response).total = 20
    /\ Len(TextOf(response).by_host) = 10
    /\ TextOf(response).by_host[1] = <<<<"h", "3">>, 4>>
    /\ TextOf(response).by_status[1] = <<<<0, "xx">>, 1>>
    /\ \A i \in 1..10 : TextOf(response).by_host[i][1] # <<"unknown">>

\* ------------------------------------------------------------------ C20
\* str.encode('utf-8') of a text the codec gave: the multi-byte character
\* becomes its two bytes, an ASCII character its byte; a character of the
\* single-byte decoding stands for bytes that are none of CodecBytes
RECURSIVE Utf8Encode(_)
Utf8Encode(text) ==
    IF text = <<>> THEN <<>>
    ELSE (IF Head(text) = "e'" THEN <<"xC3", "xA9">> ELSE <<Head(text)>>)
         \o Utf8Encode(Tail(text))

\* what read_request gives for a body `content` declared as the type of
\* `headers`: `part` is the request or the response of the record read.
\* DeclaresBinary: the declared type names a binary media type, letter case
\* apart; Placeholder: the text that stands for a body of that many bytes.
BodyKept(part, content, headers) ==
    LET content_type == HeaderGet(headers, <<"content-type">>)
        DeclaresBinary == \E bt \in BinaryTypes : Occurs(content_type, bt)
        Placeholder ==
            <<"[Binary content: ", ToString(Len(content)), " bytes, type: ">>
            \o content_type \o <<"]">>
    IN /\ part.content_length = (IF content = NoContent THEN 0 ELSE Len(content))
       /\ (content # NoContent /\ DeclaresBinary) =>
             part.content = Placeholder
       /\ (content # NoContent /\ ~DeclaresBinary /\ Utf8Valid(content)) =>
             Utf8Encode(part.content) = content

\* the exchanges whose ingestion wrote the record `data`
FlowsOf(data) ==
    {flow \in CodecFlows :
        /\ flow.reqHeaders = data.request.headers
        /\ flow.respHeaders = data.response.headers
        /\ data = RequestData(flow, data.id, data.timestamp)}

ToAnswer(lines) ==
    LET Answerable(line) ==
            /\ line.json = "object"
            /\ "id" \in DOMAIN line.request
            /\ "method" \in DOMAIN line.request
            /\ line.request.method # "notifications/initialized"
        due == SelectSeq(lines, Answerable)
    IN [i \in 1..Len(due) |-> due[i].request.id]

\* C21: after each line read, the responses written are one per tools/call
\* line read so far (unknown tool and raising handler included), carrying the
\* ids of those lines in the order of the lines; a line that is no JSON, a
\* notifications/initialized line and an unknown method without id add none,
\* and the lines after them are served.
C21_EveryCallAnsweredInOrder ==
    [i \in 1..Len(stdout) |-> stdout[i].id]
        = ToAnswer(SubSeq(stdin, 1, lineno))

\* ------------------------------------------------------------------ C22
\* C22: with one writer and no clear, in every state a reader can observe,
\* every entry of a parseable index.json has a record file that exists and
\* parses; a record file without index entry is the only inconsistency.
C22_IndexedRecordsAreReadable ==
    \A i \in DOMAIN Indexed : ~Unreadable(files, Indexed[i].id)

====
